---- MODULE Spec2Model ----
(***************************************************************************)
(* A model of the jsondb record store (package jsondb) and of the          *)
(* replicate-on-write storage backend it can run on (package aferorepwr).  *)
(*                                                                         *)
(* Goroutines call the public operations of one shared *JSONDB.  A         *)
(* mutating operation is split at every storage call, so that the          *)
(* interleavings of concurrent callers are those of the program; a read    *)
(* operation is one step.  File contents are sequences of JSON tokens.     *)
(***************************************************************************)
EXTENDS Integers, Sequences, FiniteSets, TLC

\* ------------------------------------------------------------------ bounds

\* operations started in one run, over all goroutines
MaxOps == 2
\* storage calls of the primary store that fail with an I/O error in one run
MaxFaults == 1
\* symbolic links followed in one path lookup
MaxHops == 2

\* the goroutines sharing the database handle
Procs == {"g1", "g2"}
\* collection and resource names the callers supply, beside the empty string
\* (the stores a run starts from hold a second resource, r2)
Collections == {"c1", "c2"}
Resources == {"r1"}
\* the two constructors: NewJSONDB (os) and NewJSONDBWithSftpReplication (repl)
Backends == {"os", "repl"}

\* ------------------------------------------------------------- JSON values

JStr(s) == [t |-> "str", s |-> s, n |-> 0, o |-> <<>>]
JNum(n) == [t |-> "num", s |-> "", n |-> n, o |-> <<>>]
JObj(members) == [t |-> "obj", s |-> "", n |-> 0, o |-> members]
JNull == [t |-> "null", s |-> "", n |-> 0, o |-> <<>>]
\* a Go value encoding/json cannot serialize (a channel, a func)
JChan == [t |-> "chan", s |-> "", n |-> 0, o |-> <<>>]
Member(k, v) == [k |-> k, v |-> v]

VPhenix == JObj(<<Member("FName", JStr("Phenix"))>>)
VFallen == JObj(<<Member("FName", JStr("Fallen")),
                  Member("a", JObj(<<Member("b", JNum(5))>>))>>)
\* the values callers pass to Put
Values == {VPhenix, VFallen, JChan}

\* one token of a file's JSON text
Tok(t, s, n) == [t |-> t, s |-> s, n |-> n]
LBrace == Tok("{", "", 0)
RBrace == Tok("}", "", 0)

RECURSIVE Serializable(_)
Serializable(v) ==
    CASE v.t = "chan" -> FALSE
      [] v.t = "obj" -> \A i \in 1..Len(v.o) : Serializable(v.o[i].v)
      [] OTHER -> TRUE

RECURSIVE Encode(_)
RECURSIVE EncodeMembers(_)
Encode(v) ==
    CASE v.t = "str" -> <<Tok("str", v.s, 0)>>
      [] v.t = "num" -> <<Tok("num", "", v.n)>>
      [] v.t = "obj" -> <<LBrace>> \o EncodeMembers(v.o) \o <<RBrace>>
      [] OTHER -> <<Tok("null", "", 0)>>

EncodeMembers(ms) ==
    IF ms = <<>> THEN <<>>
    ELSE <<Tok("key", Head(ms).k, 0)>> \o Encode(Head(ms).v) \o EncodeMembers(Tail(ms))

\* json.Marshal(v)
Marshal(v) ==
    IF Serializable(v) THEN [err |-> "ok", b |-> Encode(v)]
    ELSE [err |-> "EMARSHAL", b |-> <<>>]

ParseFail == [ok |-> FALSE, v |-> JNull, rest |-> <<>>]

RECURSIVE ParseValue(_)
RECURSIVE ParseMembers(_, _)
\* the first JSON value of a token sequence, and what follows it
ParseValue(toks) ==
    IF toks = <<>> THEN ParseFail
    ELSE LET h == Head(toks) IN
         CASE h.t = "str" -> [ok |-> TRUE, v |-> JStr(h.s), rest |-> Tail(toks)]
           [] h.t = "num" -> [ok |-> TRUE, v |-> JNum(h.n), rest |-> Tail(toks)]
           [] h.t = "null" -> [ok |-> TRUE, v |-> JNull, rest |-> Tail(toks)]
           [] h.t = "{" -> ParseMembers(Tail(toks), <<>>)
           [] OTHER -> ParseFail

ParseMembers(toks, acc) ==
    IF toks = <<>> THEN ParseFail
    ELSE LET h == Head(toks) IN
         CASE h.t = "}" -> [ok |-> TRUE, v |-> JObj(acc), rest |-> Tail(toks)]
           [] h.t = "key" ->
                LET r == ParseValue(Tail(toks)) IN
                IF r.ok THEN ParseMembers(r.rest, Append(acc, Member(h.s, r.v)))
                ELSE ParseFail
           [] OTHER -> ParseFail

\* json.Unmarshal(b, &record): the whole text must be one JSON value
Unmarshal(b) ==
    LET r == ParseValue(b) IN
    IF r.ok /\ r.rest = <<>> THEN [err |-> "ok", v |-> r.v]
    ELSE [err |-> "EUNMARSHAL", v |-> JNull]

\* data := map[string]interface{}{}; dec.Decode(&data), its error dropped: the
\* decoder reads the first value of the stream only, and data stays the empty
\* map unless that value is an object
DecodeMap(b) ==
    LET r == ParseValue(b) IN
    IF r.ok /\ r.v.t = "obj" THEN r.v ELSE JObj(<<>>)

\* ------------------------------------------------------- one file system

\* A name is its stem followed by its suffixes: "r1.json.tmp" is
\* <<"r1", "json", "tmp">>.  A path is the sequence of names below db.Dir.
\* A store is [n |-> path -> node, d |-> inode -> content]; the path of a
\* node names no symbolic link but, for a link node, the node itself.
\* the target string of a symbolic link: an absolute path, given as the path
\* below db.Dir it names, or a path relative to the link's directory
Target(abs, p) == [abs |-> abs, p |-> p]
NoTarget == Target(TRUE, <<>>)
DirNode == [k |-> "dir", i |-> 0, to |-> NoTarget]
FileNode(i) == [k |-> "file", i |-> i, to |-> NoTarget]
LinkNode(t) == [k |-> "link", i |-> 0, to |-> t]
NoData == [i \in {} |-> <<>>]
\* the store after the constructor ran: db.Dir exists and is empty
RootFs == [n |-> [p \in {<<>>} |-> DirNode], d |-> NoData]

Parent(p) == SubSeq(p, 1, Len(p) - 1)
Prefixes(p) == {SubSeq(p, 1, k) : k \in 0..Len(p)}
IsPrefix(q, p) == Len(q) <= Len(p) /\ SubSeq(p, 1, Len(q)) = q

\* path + ".json"
AddExt(p, ext) ==
    IF p = <<>> THEN <<<<"..", "db", ext>>>>
    ELSE [p EXCEPT ![Len(p)] = Append(@, ext)]

\* filepath.Join(a, b) of two relative paths
Join(a, b) == a \o b

RECURSIVE Walk(_, _, _, _, _)
\* Path lookup: from the directory cur along the names rest, symbolic links
\* followed (the last name's only when follow is set), at most fuel of them.
\* With err "ok", p is the path of the node found; with "ENOENT" for the last
\* name alone, p is the path at which it could be created, and <<>> otherwise.
Walk(fs, cur, rest, follow, fuel) ==
    IF cur \notin DOMAIN fs.n THEN [err |-> "ENOENT", p |-> <<>>]
    ELSE IF rest = <<>> THEN [err |-> "ok", p |-> cur]
    ELSE IF fs.n[cur].k # "dir" THEN [err |-> "ENOTDIR", p |-> <<>>]
    ELSE LET q == Append(cur, Head(rest)) IN
         IF q \notin DOMAIN fs.n
         THEN [err |-> "ENOENT", p |-> IF Len(rest) = 1 THEN q ELSE <<>>]
         ELSE IF fs.n[q].k = "link" /\ (follow \/ Len(rest) > 1)
         THEN IF fuel = 0 THEN [err |-> "ELOOP", p |-> <<>>]
              ELSE LET t == fs.n[q].to IN
                   Walk(fs, IF t.abs THEN <<>> ELSE cur, t.p \o Tail(rest), follow, fuel - 1)
         ELSE Walk(fs, q, Tail(rest), follow, fuel)

\* the node a path names, links followed (stat) or not (lstat)
Real(fs, p, follow) == Walk(fs, <<>>, p, follow, MaxHops)

\* the error of looking a path up
PathErr(fs, p) == Real(fs, p, TRUE).err

\* os.Stat
OsStat(fs, p) ==
    LET w == Real(fs, p, TRUE) IN
    [err |-> w.err, k |-> IF w.err = "ok" THEN fs.n[w.p].k ELSE "none"]

\* os.IsNotExist(err)
IsNotExist(err) == err = "ENOENT"

\* a directory made at the path q, which names nothing
WithDir(fs, q) ==
    [fs EXCEPT !.n = [x \in DOMAIN fs.n \cup {q} |-> IF x = q THEN DirNode ELSE fs.n[x]]]

RECURSIVE OsMkdirAll(_, _)
\* os.MkdirAll
OsMkdirAll(fs, p) ==
    LET w == Real(fs, p, TRUE) IN
    IF w.err = "ok"
    THEN [fs |-> fs, err |-> IF fs.n[w.p].k = "dir" THEN "ok" ELSE "ENOTDIR"]
    ELSE IF p = <<>> THEN [fs |-> WithDir(fs, <<>>), err |-> "ok"]
    ELSE LET up == OsMkdirAll(fs, Parent(p)) IN
         IF up.err # "ok" THEN up
         ELSE LET v == Real(up.fs, p, FALSE) IN
              IF v.err = "ENOENT" /\ v.p # <<>> THEN [fs |-> WithDir(up.fs, v.p), err |-> "ok"]
              ELSE [fs |-> up.fs, err |-> IF v.err = "ok" THEN "EEXIST" ELSE v.err]

\* the inode number a new file gets
FreeIno(fs) ==
    CHOOSE i \in 1..(Cardinality(DOMAIN fs.d) + 1) :
        i \notin DOMAIN fs.d /\ \A j \in 1..(i - 1) : j \in DOMAIN fs.d

\* os.OpenFile(name, O_CREATE|O_TRUNC, perm): the file is created or emptied
OsOpenTrunc(fs, p) ==
    LET w == Real(fs, p, TRUE) IN
    IF w.err = "ok" THEN
        IF fs.n[w.p].k = "dir" THEN [fs |-> fs, err |-> "EISDIR", i |-> 0]
        ELSE [fs |-> [fs EXCEPT !.d[fs.n[w.p].i] = <<>>], err |-> "ok", i |-> fs.n[w.p].i]
    ELSE IF w.err = "ENOENT" /\ w.p # <<>> THEN
        LET i == FreeIno(fs) IN
        [fs |-> [n |-> [q \in DOMAIN fs.n \cup {w.p} |->
                          IF q = w.p THEN FileNode(i) ELSE fs.n[q]],
                 d |-> [j \in DOMAIN fs.d \cup {i} |->
                          IF j = i THEN <<>> ELSE fs.d[j]]],
         err |-> "ok", i |-> i]
    ELSE [fs |-> fs, err |-> w.err, i |-> 0]

\* bytes b written at offset 0 over the content old
Overwrite(old, b) ==
    IF Len(b) >= Len(old) THEN b ELSE b \o SubSeq(old, Len(b) + 1, Len(old))

\* f.Write(b) on an open file
OsWrite(fs, i, b) == [fs EXCEPT !.d[i] = Overwrite(@, b)]

\* os.Rename: neither name's last component is followed
OsRename(fs, oldname, newname) ==
    LET wo == Real(fs, oldname, FALSE)
        wn == Real(fs, newname, FALSE)
        old == wo.p
        new == wn.p
    IN
    IF wo.err # "ok" THEN [fs |-> fs, err |-> wo.err]
    ELSE IF wn.err = "ok" /\ old = new THEN [fs |-> fs, err |-> "ok"]
    ELSE IF new = <<>> \/ wn.err \notin {"ok", "ENOENT"} \/ IsPrefix(old, new)
    THEN [fs |-> fs, err |-> "ENOENT"]
    ELSE IF new \in DOMAIN fs.n /\ (fs.n[new].k = "dir" \/ fs.n[old].k = "dir")
    THEN [fs |-> fs, err |-> "EEXIST"]
    ELSE LET moved == {q \in DOMAIN fs.n : IsPrefix(old, q)}
             Dest(q) == new \o SubSeq(q, Len(old) + 1, Len(q))
             kept == (DOMAIN fs.n \ moved) \ {new}
             Src(q) == CHOOSE m \in moved : Dest(m) = q
         IN [fs |-> [fs EXCEPT !.n = [q \in kept \cup {Dest(m) : m \in moved} |->
                                        IF q \in kept THEN fs.n[q] ELSE fs.n[Src(q)]]],
             err |-> "ok"]

\* the store without the node at the path q and the nodes below it
Without(fs, q) ==
    [fs EXCEPT !.n = [x \in {y \in DOMAIN fs.n : ~IsPrefix(q, y)} |-> fs.n[x]]]

\* os.RemoveAll: the node and everything below it, a link not followed; a
\* missing path is no error
OsRemoveAll(fs, p) ==
    LET w == Real(fs, p, FALSE) IN
    IF w.err = "ok" THEN Without(fs, w.p) ELSE fs

\* os.Remove: a file, a link or an empty directory
OsRemove(fs, p) ==
    LET w == Real(fs, p, FALSE) IN
    IF w.err # "ok" THEN [fs |-> fs, err |-> w.err]
    ELSE IF w.p = <<>> \/ \E x \in DOMAIN fs.n : x # w.p /\ IsPrefix(w.p, x)
    THEN [fs |-> fs, err |-> "ENOTEMPTY"]
    ELSE [fs |-> Without(fs, w.p), err |-> "ok"]

\* os.Symlink(target, name): a link at name, which must not exist, to the
\* path the target string names
OsSymlink(fs, target, name) ==
    LET w == Real(fs, name, FALSE) IN
    IF w.err = "ok" THEN [fs |-> fs, err |-> "EEXIST"]
    ELSE IF w.err = "ENOENT" /\ w.p # <<>>
    THEN [fs |-> [fs EXCEPT !.n = [x \in DOMAIN fs.n \cup {w.p} |->
                                     IF x = w.p THEN LinkNode(target) ELSE fs.n[x]]],
          err |-> "ok"]
    ELSE [fs |-> fs, err |-> w.err]

\* ioutil.ReadFile
OsReadFile(fs, p) ==
    LET w == Real(fs, p, TRUE) IN
    IF w.err # "ok" THEN [err |-> w.err, b |-> <<>>]
    ELSE IF fs.n[w.p].k = "dir" THEN [err |-> "EISDIR", b |-> <<>>]
    ELSE [err |-> "ok", b |-> fs.d[fs.n[w.p].i]]

\* the names a listing can hold, in the order of their file names
StemOrder == <<"c1", "c2", "r1", "r2">>
StemRank(s) == CHOOSE i \in 1..Len(StemOrder) : StemOrder[i] = s
NameKey(name) == StemRank(name[1]) * (Len(StemOrder) + 1) + Len(name)

RECURSIVE SortNames(_)
SortNames(S) ==
    IF S = {} THEN <<>>
    ELSE LET m == CHOOSE x \in S : \A y \in S : NameKey(x) <= NameKey(y)
         IN <<m>> \o SortNames(S \ {m})

\* ioutil.ReadDir: the entries of a directory sorted by file name; the callers
\* drop its error and range over the (then empty) list
OsReadDir(fs, p) ==
    LET w == Real(fs, p, TRUE) IN
    IF w.err = "ok" /\ fs.n[w.p].k = "dir"
    THEN SortNames({q[Len(q)] : q \in {x \in DOMAIN fs.n :
                                          Len(x) = Len(w.p) + 1 /\ IsPrefix(w.p, x)}})
    ELSE <<>>

\* the inodes a store's directory entries name
LinkedInos(fs) == {fs.n[p].i : p \in {q \in DOMAIN fs.n : fs.n[q].k = "file"}}

\* a store with the content of unlinked, closed files forgotten
Reclaim(fs, open) ==
    [fs EXCEPT !.d = [i \in (LinkedInos(fs) \cup open) \cap DOMAIN fs.d |-> fs.d[i]]]

\* ------------------------------------------------- the storage backend

\* The stores are S = [b |-> primary, l |-> secondary]; be is the backend the
\* constructor chose; f names the store whose call fails with an I/O error
\* ("none", "base", "layer").

\* db.DBFS.Stat: both backends stat the primary
DbStat(be, S, p) == OsStat(S.b, p)

\* db.DBFS.MkdirAll.  The replicating backend creates on both stores when the
\* primary has no such path, drops both results and returns nil.
DbMkdirAll(be, S, p, f) ==
    IF be = "os" THEN
        IF f = "base" THEN [S |-> S, err |-> "EIO"]
        ELSE LET r == OsMkdirAll(S.b, p) IN [S |-> [S EXCEPT !.b = r.fs], err |-> r.err]
    ELSE IF OsStat(S.b, p).err = "ok" THEN [S |-> S, err |-> "ok"]
    ELSE [S |-> [b |-> IF f = "base" THEN S.b ELSE OsMkdirAll(S.b, p).fs,
                 l |-> IF f = "layer" THEN S.l ELSE OsMkdirAll(S.l, p).fs],
          err |-> "ok"]

\* an open file: the store it lives on and its inode
Handle(st, i) == [st |-> st, i |-> i]

\* db.DBFS.OpenFile(tmpPath, O_WRONLY|O_CREATE|O_TRUNC, perm) as afero.WriteFile
\* calls it.  The replicating backend creates the file on both stores when
\* the primary has none; when it has one, it opens the primary's file twice,
\* and on an error closes the nil file it got.
DbOpenFile(be, S, p, f) ==
    IF be = "os" THEN
        IF f = "base" THEN [S |-> S, err |-> "EIO", h |-> {}]
        ELSE LET r == OsOpenTrunc(S.b, p) IN
             [S |-> [S EXCEPT !.b = r.fs], err |-> r.err,
              h |-> IF r.err = "ok" THEN {Handle("b", r.i)} ELSE {}]
    ELSE IF OsStat(S.b, p).err # "ok" THEN
        IF f = "base" THEN [S |-> S, err |-> "EIO", h |-> {}]
        ELSE LET rb == OsOpenTrunc(S.b, p) IN
             IF rb.err # "ok" THEN [S |-> S, err |-> rb.err, h |-> {}]
             ELSE IF f = "layer"
             THEN [S |-> [S EXCEPT !.b = rb.fs], err |-> "EIO", h |-> {}]
             ELSE LET rl == OsOpenTrunc(S.l, p) IN
                  IF rl.err # "ok"
                  THEN [S |-> [S EXCEPT !.b = rb.fs], err |-> rl.err, h |-> {}]
                  ELSE [S |-> [b |-> rb.fs, l |-> rl.fs], err |-> "ok",
                        h |-> {Handle("b", rb.i), Handle("l", rl.i)}]
    ELSE IF f = "base" THEN [S |-> S, err |-> "PANIC", h |-> {}]
    ELSE LET rb == OsOpenTrunc(S.b, p) IN
         IF rb.err # "ok" THEN [S |-> S, err |-> "PANIC", h |-> {}]
         ELSE [S |-> [S EXCEPT !.b = rb.fs], err |-> "ok", h |-> {Handle("b", rb.i)}]

\* the inodes of store st that the handles h hold open
OpenInos(h, st) == {x.i : x \in {y \in h : y.st = st}}

\* f.Write(b) on the file OpenFile returned, then f.Close(): the text goes to
\* every store the file is open on; a failing store takes the first k bytes,
\* and only the primary's failure is returned
DbWrite(S, h, b, f, k) ==
    LET Put1(fs, st) ==
            LET is == OpenInos(h, st)
                data == IF (f = "base" /\ st = "b") \/ (f = "layer" /\ st = "l")
                        THEN SubSeq(b, 1, k) ELSE b
            IN [fs EXCEPT !.d = [i \in DOMAIN fs.d |->
                                   IF i \in is THEN Overwrite(fs.d[i], data) ELSE fs.d[i]]]
    IN [S |-> [b |-> Put1(S.b, "b"), l |-> Put1(S.l, "l")],
        err |-> IF f = "base" THEN "EIO" ELSE "ok"]

\* db.DBFS.Rename.  The replicating backend stats the primary, renames on
\* both stores, drops both results and returns nil.
DbRename(be, S, old, new, f) ==
    IF be = "os" THEN
        IF f = "base" THEN [S |-> S, err |-> "EIO"]
        ELSE LET r == OsRename(S.b, old, new) IN [S |-> [S EXCEPT !.b = r.fs], err |-> r.err]
    ELSE IF OsStat(S.b, old).err # "ok" THEN [S |-> S, err |-> OsStat(S.b, old).err]
    ELSE [S |-> [b |-> IF f = "base" THEN S.b ELSE OsRename(S.b, old, new).fs,
                 l |-> IF f = "layer" THEN S.l ELSE OsRename(S.l, old, new).fs],
          err |-> "ok"]

\* db.DBFS.RemoveAll.  The replicating backend removes on both stores, drops
\* both results and returns nil.
DbRemoveAll(be, S, p, f) ==
    IF be = "os" THEN
        IF f = "base" THEN [S |-> S, err |-> "EIO"]
        ELSE [S |-> [S EXCEPT !.b = OsRemoveAll(S.b, p)], err |-> "ok"]
    ELSE [S |-> [b |-> IF f = "base" THEN S.b ELSE OsRemoveAll(S.b, p),
                 l |-> IF f = "layer" THEN S.l ELSE OsRemoveAll(S.l, p)],
          err |-> "ok"]

\* db.DBFS.Remove.  The replicating backend removes on both stores, drops
\* both results and returns nil.
DbRemove(be, S, p, f) ==
    IF be = "os" THEN
        IF f = "base" THEN [S |-> S, err |-> "EIO"]
        ELSE LET r == OsRemove(S.b, p) IN [S |-> [S EXCEPT !.b = r.fs], err |-> r.err]
    ELSE [S |-> [b |-> IF f = "base" THEN S.b ELSE OsRemove(S.b, p).fs,
                 l |-> IF f = "layer" THEN S.l ELSE OsRemove(S.l, p).fs],
          err |-> "ok"]

\* a replicating backend that reads files from its secondary store
DbReadFileLayer(be, S, p) == OsReadFile(IF be = "repl" THEN S.l ELSE S.b, p)

\* afero.ReadFile(db.DBFS, name): both backends read the primary
DbReadFile(be, S, p) == OsReadFile(S.b, p)

\* afero.ReadDir(db.DBFS, dir): both backends list the primary
DbReadDir(be, S, p) == OsReadDir(S.b, p)

\* db.Stat: the path as it is, and with ".json" added when that does not exist
Stat(be, S, p) ==
    LET r == DbStat(be, S, p) IN
    IF IsNotExist(r.err) THEN DbStat(be, S, AddExt(p, "json")) ELSE r

\* ------------------------------------------------------ the read operations

\* Caller strings: a collection or resource argument is a path, "" is <<>>.
NameArg(s) == <<<<s>>>>
CollArgs == {<<>>} \cup {NameArg(c) : c \in Collections}
ResArgs == {<<>>} \cup {NameArg(r) : r \in Resources}
\* the collections the read operations are called on
ReadColls == {<<>>, NameArg("c1")}

\* fnlPath and tmpPath of Put
FnlPath(c, r) == AddExt(Join(c, r), "json")
TmpPath(c, r) == AddExt(FnlPath(c, r), "tmp")

\* Get: validation, db.Stat, ReadFile(rec + ".json"), json.Unmarshal
Get(be, S, c, r) ==
    IF c = <<>> \/ r = <<>> THEN [err |-> "EINVAL", v |-> JNull]
    ELSE LET rec == Join(c, r)
             st == Stat(be, S, rec)
             rf == DbReadFile(be, S, AddExt(rec, "json"))
         IN IF st.err # "ok" THEN [err |-> st.err, v |-> JNull]
            ELSE IF rf.err # "ok" THEN [err |-> rf.err, v |-> JNull]
            ELSE Unmarshal(rf.b)

\* GetBytes: validation, db.Stat, ioutil.ReadFile(rec + ".json"); it reads the
\* local file system, the primary store
GetBytes(be, S, c, r) ==
    IF c = <<>> \/ r = <<>> THEN [err |-> "EINVAL", b |-> <<>>]
    ELSE LET rec == Join(c, r)
             st == OsStat(S.b, rec)
             st2 == IF IsNotExist(st.err) THEN OsStat(S.b, AddExt(rec, "json")) ELSE st
             rf == OsReadFile(S.b, AddExt(rec, "json"))
         IN IF st2.err # "ok" THEN [err |-> st2.err, b |-> <<>>]
            ELSE rf

\* What a caller passes as records: a pointer to a slice, a slice, a pointer
\* to a struct, a struct, nil.
OutKinds == {"ptrslice", "slice", "ptrstruct", "struct", "nil"}

\* toSliceType: the element type of the slice records points to.  A slice
\* passed by value is an error; nil has no reflect.Type to ask the Kind of;
\* for every other value the function returns nil, nil.
ToSliceType(kind) ==
    CASE kind = "ptrslice" -> [err |-> "ok", rt |-> "elem"]
      [] kind = "slice" -> [err |-> "ETYPE", rt |-> "nil"]
      [] kind = "nil" -> [err |-> "PANIC", rt |-> "nil"]
      [] OTHER -> [err |-> "ok", rt |-> "nil"]

\* one element appended to the caller's slice; src is the file it was read from
Elem(name, v) == [src |-> name, v |-> v]

RECURSIVE ScanAll(_, _, _, _, _, _)
\* the loop of GetAll over the listing; reflect.New(rt) panics when rt is nil;
\* out is what the loop has appended to the caller's slice
ScanAll(be, S, dir, files, rt, out) ==
    IF files = <<>> THEN [err |-> "ok", out |-> out]
    ELSE LET rf == DbReadFile(be, S, Join(dir, <<Head(files)>>))
             u == Unmarshal(rf.b)
         IN IF rf.err # "ok" THEN [err |-> rf.err, out |-> out]
            ELSE IF rt = "nil" THEN [err |-> "PANIC", out |-> out]
            ELSE IF u.err # "ok" THEN [err |-> u.err, out |-> out]
            ELSE ScanAll(be, S, dir, Tail(files), rt, Append(out, Elem(Head(files), u.v)))

\* GetAll
GetAll(be, S, c, kind) ==
    IF c = <<>> THEN [err |-> "EINVAL", out |-> <<>>]
    ELSE LET st == Stat(be, S, c)
             t == ToSliceType(kind)
         IN IF st.err # "ok" THEN [err |-> st.err, out |-> <<>>]
            ELSE IF t.err # "ok" THEN [err |-> t.err, out |-> <<>>]
            ELSE ScanAll(be, S, c, DbReadDir(be, S, c), t.rt, <<>>)

\* A query string is its pieces: "a.b" is <<"a", ".", "b">>.
RECURSIVE Split(_, _)
\* strings.Split(query, "."), cur being the segment read so far
Split(q, cur) ==
    IF q = <<>> THEN <<cur>>
    ELSE IF Head(q) = "." THEN <<cur>> \o Split(Tail(q), <<>>)
    ELSE Split(Tail(q), Append(cur, Head(q)))

\* queryPath of GetWhere
QueryPath(q) ==
    IF \E i \in 1..Len(q) : q[i] = "." THEN Split(q, <<>>) ELSE <<q>>

\* the last member of an object with key k (encoding/json keeps the last)
Lookup(obj, k) ==
    LET is == {i \in 1..Len(obj.o) : <<obj.o[i].k>> = k} IN
    IF is = {} THEN [ok |-> FALSE, v |-> JNull]
    ELSE [ok |-> TRUE, v |-> obj.o[CHOOSE i \in is : \A j \in is : j <= i].v]

RECURSIVE RQuery(_, _)
\* jsonq: the value at a path of keys, or an error
RQuery(val, path) ==
    IF path = <<>> THEN [ok |-> TRUE, v |-> val]
    ELSE IF val.t # "obj" THEN [ok |-> FALSE, v |-> JNull]
    ELSE LET m == Lookup(val, Head(path)) IN
         IF m.ok THEN RQuery(m.v, Tail(path)) ELSE [ok |-> FALSE, v |-> JNull]

\* the switch on expression.(type): the accessor of the expected value's type
\* (jq.Int, jq.String) and the comparison; err when the accessor fails
Match(data, q, e) ==
    LET r == RQuery(data, QueryPath(q)) IN
    IF ~r.ok \/ r.v.t # e.t THEN [err |-> "EQUERY", match |-> FALSE]
    ELSE [err |-> "ok", match |-> r.v = e]

\* the negation of GetWhereNot left out
TakeSame(neg, match) == match
\* "else if match" of GetWhere, "else if !match" of GetWhereNot
Take(neg, match) == IF neg THEN ~match ELSE match

\* the limit check left out
AtLimitNever(numFound, limit) == FALSE
\* "if numFound == limit { break }"
AtLimit(numFound, limit) == numFound = limit

RECURSIVE ScanWhere(_, _, _, _, _, _, _, _, _, _)
\* the loop of GetWhere (neg = FALSE) and of GetWhereNot (neg = TRUE); out is
\* what the loop has appended to the caller's slice, numFound its length
ScanWhere(be, S, dir, files, q, e, limit, neg, rt, out) ==
    IF files = <<>> THEN [err |-> "ok", out |-> out]
    ELSE LET rf == DbReadFile(be, S, Join(dir, <<Head(files)>>))
             m == Match(DecodeMap(rf.b), q, e)
             u == Unmarshal(rf.b)
             take == Take(neg, m.match)
             out2 == IF take THEN Append(out, Elem(Head(files), u.v)) ELSE out
         IN IF rf.err # "ok" THEN [err |-> rf.err, out |-> out]
            ELSE IF m.err # "ok" THEN [err |-> m.err, out |-> out]
            ELSE IF take /\ rt = "nil" THEN [err |-> "PANIC", out |-> out]
            ELSE IF take /\ u.err # "ok" THEN [err |-> u.err, out |-> out]
            ELSE IF AtLimit(Len(out2), limit) THEN [err |-> "ok", out |-> out2]
            ELSE ScanWhere(be, S, dir, Tail(files), q, e, limit, neg, rt, out2)

\* GetWhere and GetWhereNot
GetWhere(be, S, c, q, e, limit, neg, kind) ==
    IF c = <<>> THEN [err |-> "EINVAL", out |-> <<>>]
    ELSE LET st == Stat(be, S, c)
             t == ToSliceType(kind)
         IN IF st.err # "ok" THEN [err |-> st.err, out |-> <<>>]
            ELSE IF t.err # "ok" THEN [err |-> t.err, out |-> <<>>]
            ELSE ScanWhere(be, S, c, DbReadDir(be, S, c), q, e, limit, neg, t.rt, <<>>)

\* ------------------------------------------------------------------ GenID

\* the values of a byte
Bytes == 0..255

\* dictionary := "0123456789ABCDEFGHIJKLMNOPQRSTUVWXYZabcdefghijklmnopqrstuvwxyz"
Dictionary ==
    <<"0", "1", "2", "3", "4", "5", "6", "7", "8", "9",
      "A", "B", "C", "D", "E", "F", "G", "H", "I", "J", "K", "L", "M",
      "N", "O", "P", "Q", "R", "S", "T", "U", "V", "W", "X", "Y", "Z",
      "a", "b", "c", "d", "e", "f", "g", "h", "i", "j", "k", "l", "m",
      "n", "o", "p", "q", "r", "s", "t", "u", "v", "w", "x", "y", "z">>

\* dictionary[v%byte(len(dictionary))], the index a byte
Symbol(v) == Dictionary[((v % 256) % (Len(Dictionary) % 256)) + 1]

\* GenID(idSize), rnd being the idSize bytes rand.Read put into the slice
GenID(rnd) == [k \in 1..Len(rnd) |-> Symbol(rnd[k])]

\* no call of GenID yet
NoID == [n |-> 0 - 1, rnd |-> <<>>, id |-> <<>>]

\* ------------------------------------------------------------- the state

VARIABLES
    backend,    \* the backend db.DBFS of the constructor that ran
    dirabs,     \* whether db.Dir is an absolute path
    genid,      \* the last call of GenID: the bytes rand.Read gave, the string returned
    dbmutex,    \* db.mutex: the goroutine that holds it, "none" when it is free
    linked,     \* the Links of a file resource that returned nil
    base,       \* the primary store
    layer,      \* the secondary store of the replicating backend
    mutexes,    \* db.mutexes: key -> the sync.Mutex stored under it (TRUE: locked)
    local,      \* the sync.Mutex variable m of each goroutine's running call
    pc,         \* where each goroutine stands in its call
    op,         \* the arguments and locals of each goroutine's running call
    ret,        \* what each goroutine's last call returned
    ops,        \* calls started
    faults,     \* storage calls failed
    alone       \* no other goroutine changed a store since this one's call began

vars == <<backend, dirabs, genid, dbmutex, linked, base, layer, mutexes, local, pc, op, ret, ops, faults, alone>>

Stores == [b |-> base, l |-> layer]

\* the queries of GetWhere and GetWhereNot: field path and expected value
Queries == {[q |-> <<"FName">>, e |-> JStr("Phenix")],
            [q |-> <<"a", ".", "b">>, e |-> JNum(5)],
            [q |-> <<"FName">>, e |-> JNum(5)]}
\* the limits of GetWhere and GetWhereNot
Limits == {-1}

NoHandle == [own |-> TRUE, key |-> <<>>]
NoOp == [name |-> "none", c |-> <<>>, r |-> <<>>, v |-> JNull, key |-> <<>>, h |-> NoHandle,
         b |-> <<>>, fd |-> {}, k |-> "none", tch |-> FALSE,
         dc |-> <<>>, dr |-> <<>>, fresh |-> FALSE]
NoQuery == [q |-> <<>>, e |-> JNull]
NoRet == [name |-> "none", c |-> <<>>, r |-> <<>>, v |-> JNull, q |-> NoQuery,
          limit |-> 0, err |-> "none", out |-> <<>>, mv |-> FALSE, tch |-> FALSE,
          dc |-> <<>>, dr |-> <<>>, kind |-> "none", b |-> <<>>]

\* the stores after a Put(c, r, v) that ran alone and met no failure
AfterPut(be, S, c, r, v) ==
    LET s1 == DbMkdirAll(be, S, c, "none").S
        o == DbOpenFile(be, s1, TmpPath(c, r), "none")
        s2 == DbWrite(o.S, o.h, Marshal(v).b, "none", 0).S
        s3 == DbRename(be, s2, TmpPath(c, r), FnlPath(c, r), "none").S
    IN [b |-> Reclaim(s3.b, {}), l |-> Reclaim(s3.l, {})]

\* the stores of a database just created
EmptyStores == [b |-> RootFs, l |-> RootFs]

\* the stores two Puts leave, one after the other
StoreOne(be) == AfterPut(be, EmptyStores, NameArg("c1"), NameArg("r1"), VPhenix)
StoreTwo(be) == AfterPut(be, StoreOne(be), NameArg("c1"), NameArg("r2"), VFallen)

\* the constructor uses a database that already exists: the stores a run
\* starts from are empty, or hold what earlier Puts left
InitStores(be) == {EmptyStores, StoreOne(be), StoreTwo(be)}

\* the state after a constructor ran on one of the stores SS, db.Dir absolute
\* or not
InitDir(abs, SS) ==
    /\ backend \in Backends
    /\ dirabs = abs
    /\ genid = NoID
    /\ dbmutex = "none"
    /\ linked = {}
    /\ \E S \in SS : base = S.b /\ layer = S.l
    /\ mutexes = [k \in {} |-> FALSE]
    /\ local = [p \in Procs |-> FALSE]
    /\ pc = [p \in Procs |-> "idle"]
    /\ op = [p \in Procs |-> NoOp]
    /\ ret = [p \in Procs |-> NoRet]
    /\ ops = 0
    /\ faults = 0
    /\ alone = [p \in Procs |-> TRUE]

\* NewJSONDB with an absolute datadir (no call of Spec reads db.Dir)
Init == InitDir(TRUE, InitStores(backend))

\* ------------------------------------------------------------ the Lock Table

\* one mutex shared by every key
MutexHandleGlobal(key) == [own |-> FALSE, key |-> <<<<"*">>>>]

\* getOrCreateMutex returns m, a sync.Mutex, by value: the caller's m is a copy
\* of the mutex stored in the map, a lock of its own
MutexHandle(key) == [own |-> TRUE, key |-> key]

\* db.mutexes after getOrCreateMutex(key)
Inserted(key) ==
    IF key \in DOMAIN mutexes THEN mutexes
    ELSE [k \in DOMAIN mutexes \cup {key} |-> IF k = key THEN FALSE ELSE mutexes[k]]

\* whether the mutex a handle names is locked
Locked(h, p) ==
    IF h.own THEN local[p] ELSE h.key \in DOMAIN mutexes /\ mutexes[h.key]

\* mutex.Lock() and mutex.Unlock() on the handle of p's call
SetMutex(h, p, v) ==
    IF h.own THEN /\ local' = [local EXCEPT ![p] = v]
                  /\ UNCHANGED mutexes
    ELSE /\ mutexes' = [k \in DOMAIN mutexes \cup {h.key} |->
                          IF k = h.key THEN v ELSE mutexes[k]]
         /\ UNCHANGED local

\* between mutex.Lock() and the deferred mutex.Unlock()
InCS(p) == pc[p] \notin {"idle", "table", "lock"}

\* ------------------------------------------------------------ bookkeeping

\* the failures a storage call can be given
FaultChoices ==
    {"none"} \cup (IF faults < MaxFaults
                   THEN {"base"} \cup (IF backend = "repl" THEN {"layer"} ELSE {})
                   ELSE {})

\* what a reader of a store can see
View(fs) == [n |-> fs.n, d |-> [i \in LinkedInos(fs) |-> fs.d[i]]]

\* the files all running calls hold open on store st, p's being fd
AllOpen(p, fd, st) ==
    UNION {OpenInos(IF q = p THEN fd ELSE op[q].fd, st) : q \in Procs}

\* the stores become S2, p's open files fd
SetStores(p, S2, fd, f) ==
    /\ base' = Reclaim(S2.b, AllOpen(p, fd, "b"))
    /\ layer' = Reclaim(S2.l, AllOpen(p, fd, "l"))
    /\ faults' = IF f = "none" THEN faults ELSE faults + 1
    /\ alone' = [q \in Procs |->
                   IF q = p THEN alone[q]
                   ELSE alone[q] /\ View(S2.b) = View(base) /\ View(S2.l) = View(layer)]

\* the goroutines in the order they make their first call
ProcOrder == <<"g1", "g2">>
Started(p) == pc[p] # "idle" \/ ret[p].name # "none"

\* goroutine p may begin a call: it is idle, the run has calls left, and the
\* goroutines before it in ProcOrder made their first call
CanCall(p) ==
    /\ pc[p] = "idle"
    /\ ops < MaxOps
    /\ \A i \in 1..Len(ProcOrder) :
          ProcOrder[i] = p => \A j \in 1..(i - 1) : Started(ProcOrder[j])

\* a call that took no lock returns (b: the bytes GetBytes returns)
ReturnBytes(p, name, c, r, q, limit, kind, err, v, out, b) ==
    /\ CanCall(p)
    /\ ops' = ops + 1
    /\ ret' = [ret EXCEPT ![p] = [name |-> name, c |-> c, r |-> r, v |-> v, q |-> q,
                                  limit |-> limit, err |-> err, out |-> out, mv |-> FALSE,
                                  tch |-> FALSE, dc |-> <<>>, dr |-> <<>>, kind |-> kind,
                                  b |-> b]]
    /\ alone' = [alone EXCEPT ![p] = TRUE]
    /\ UNCHANGED <<backend, dirabs, genid, dbmutex, linked, base, layer, mutexes, local, pc, op, faults>>

ReturnRead(p, name, c, r, q, limit, kind, err, v, out) ==
    ReturnBytes(p, name, c, r, q, limit, kind, err, v, out, <<>>)

\* a mutating call begins: getOrCreateMutex(key), the arguments kept
\* (dc, dr: the destination of a Link)
CallTo(p, name, c, r, v, key, dc, dr) ==
    /\ CanCall(p)
    /\ ops' = ops + 1
    /\ mutexes' = Inserted(key)
    /\ local' = [local EXCEPT ![p] = IF MutexHandle(key).own THEN Inserted(key)[key] ELSE @]
    /\ op' = [op EXCEPT ![p] = [NoOp EXCEPT !.name = name, !.c = c, !.r = r, !.v = v,
                                            !.key = key, !.h = MutexHandle(key),
                                            !.dc = dc, !.dr = dr]]
    /\ pc' = [pc EXCEPT ![p] = "lock"]
    /\ ret' = [ret EXCEPT ![p] = NoRet]
    /\ alone' = [alone EXCEPT ![p] = TRUE]
    /\ UNCHANGED <<backend, dirabs, genid, dbmutex, linked, base, layer, faults>>

Call(p, name, c, r, v, key) == CallTo(p, name, c, r, v, key, <<>>, <<>>)

\* whether the stores S2 a storage call of p leaves differ from the stores it
\* found in what Get returns for the record of p's call
Touches(p, S2) ==
    Get(backend, S2, op[p].c, op[p].r) # Get(backend, Stores, op[p].c, op[p].r)

\* a mutating call returns err: the deferred mutex.Unlock() runs (mv records
\* whether the call moved its temp file over the final path of the primary,
\* tch whether a storage call of it changed what Get returns for its record)
ReturnMv(p, err, mv, tch) ==
    /\ pc' = [pc EXCEPT ![p] = "idle"]
    /\ ret' = [ret EXCEPT ![p] = [NoRet EXCEPT !.name = op[p].name, !.c = op[p].c,
                                              !.r = op[p].r, !.v = op[p].v, !.err = err,
                                              !.mv = mv, !.tch = tch,
                                              !.dc = op[p].dc, !.dr = op[p].dr]]
    /\ op' = [op EXCEPT ![p] = NoOp]
    /\ SetMutex(op[p].h, p, FALSE)

Return(p, err) == ReturnMv(p, err, FALSE, FALSE)

\* Put returns err after the storage call that left the stores S2
PutReturn(p, err, S2) == ReturnMv(p, err, FALSE, op[p].tch \/ Touches(p, S2))

\* Put goes on after the storage call that left the stores S2
PutGoto(p, next, newop, S2) ==
    /\ pc' = [pc EXCEPT ![p] = next]
    /\ op' = [op EXCEPT ![p] = [newop EXCEPT !.tch = @ \/ Touches(p, S2)]]
    /\ UNCHANGED <<ret, mutexes, local>>

\* a mutating call goes on to its next storage call
Goto(p, next, newop) ==
    /\ pc' = [pc EXCEPT ![p] = next]
    /\ op' = [op EXCEPT ![p] = newop]
    /\ UNCHANGED <<ret, mutexes, local>>

\* mutex.Lock()
Lock(p) ==
    /\ pc[p] = "lock"
    /\ ~Locked(op[p].h, p)
    /\ SetMutex(op[p].h, p, TRUE)
    /\ pc' = [pc EXCEPT ![p] = CASE op[p].name = "Put" -> "mkdir"
                                 [] op[p].name = "InitCollection" -> "init"
                                 [] op[p].name = "Link" -> "lstat"
                                 [] OTHER -> "stat"]
    /\ UNCHANGED <<backend, dirabs, genid, dbmutex, linked, base, layer, op, ret, ops, faults, alone>>

\* ------------------------------------------------------------------- Put

\* Put without the check of its collection
PutCallUnchecked(p, c, r, v) == Call(p, "Put", c, r, v, c)

\* Put up to mutex := db.getOrCreateMutex(collection).  The callers modelled
\* name the resource, so that GenID is not called.
PutCall(p, c, r, v) ==
    IF c = <<>> THEN ReturnRead(p, "Put", c, r, NoQuery, 0, "none", "EINVAL", v, <<>>)
    ELSE Call(p, "Put", c, r, v, c)

\* db.DBFS.MkdirAll(dir, 0755), then json.Marshal(v)
PutMkdir(p) ==
    /\ pc[p] = "mkdir"
    /\ \E f \in FaultChoices :
       \E r \in {DbMkdirAll(backend, Stores, op[p].c, f)}, m \in {Marshal(op[p].v)} :
            /\ SetStores(p, r.S, {}, f)
            /\ IF r.err # "ok" THEN PutReturn(p, r.err, r.S)
               ELSE IF m.err # "ok" THEN PutReturn(p, m.err, r.S)
               ELSE PutGoto(p, "open", [op[p] EXCEPT !.b = m.b], r.S)
    /\ UNCHANGED <<backend, dirabs, genid, dbmutex, linked, ops>>

\* afero.WriteFile: OpenFile(tmpPath, O_WRONLY|O_CREATE|O_TRUNC, 0644)
PutOpen(p) ==
    /\ pc[p] = "open"
    /\ \E f \in FaultChoices :
       \E r \in {DbOpenFile(backend, Stores, TmpPath(op[p].c, op[p].r), f)} :
            /\ SetStores(p, r.S, r.h, f)
            /\ IF r.err # "ok" THEN PutReturn(p, r.err, r.S)
               ELSE PutGoto(p, "write", [op[p] EXCEPT !.fd = r.h], r.S)
    /\ UNCHANGED <<backend, dirabs, genid, dbmutex, linked, ops>>

\* afero.WriteFile: f.Write(data), f.Close()
PutWrite(p) ==
    /\ pc[p] = "write"
    /\ \E f \in FaultChoices :
       \E k \in IF f = "none" THEN {0} ELSE 0..(Len(op[p].b) - 1) :
       \E r \in {DbWrite(Stores, op[p].fd, op[p].b, f, k)} :
            /\ SetStores(p, r.S, {}, f)
            /\ IF r.err # "ok" THEN PutReturn(p, r.err, r.S)
               ELSE PutGoto(p, "rename", [op[p] EXCEPT !.fd = {}], r.S)
    /\ UNCHANGED <<backend, dirabs, genid, dbmutex, linked, ops>>

\* return db.DBFS.Rename(tmpPath, fnlPath)
PutRename(p) ==
    /\ pc[p] = "rename"
    /\ \E f \in FaultChoices :
       \E r \in {DbRename(backend, Stores, TmpPath(op[p].c, op[p].r),
                         FnlPath(op[p].c, op[p].r), f)} :
         LET tmp == TmpPath(op[p].c, op[p].r)
             fnl == FnlPath(op[p].c, op[p].r)
             moved == /\ tmp \in DOMAIN base.n
                      /\ tmp \notin DOMAIN r.S.b.n
                      /\ fnl \in DOMAIN r.S.b.n
                      /\ r.S.b.n[fnl] = base.n[tmp]
         IN /\ SetStores(p, r.S, {}, f)
            /\ ReturnMv(p, r.err, moved, op[p].tch \/ Touches(p, r.S))
    /\ UNCHANGED <<backend, dirabs, genid, dbmutex, linked, ops>>

\* -------------------------------------------------------- InitCollection

InitCall(p, c) == Call(p, "InitCollection", c, <<>>, JNull, c)

\* db.DBFS.MkdirAll(dir, 0755)
InitMkdir(p) ==
    /\ pc[p] = "init"
    /\ \E f \in FaultChoices :
       \E r \in {DbMkdirAll(backend, Stores, op[p].c, f)} :
            /\ SetStores(p, r.S, {}, f)
            /\ Return(p, r.err)
    /\ UNCHANGED <<backend, dirabs, genid, dbmutex, linked, ops>>

\* ---------------------------------------------------------------- Delete

DeleteCall(p, c, r) == Call(p, "Delete", c, r, JNull, Join(c, r))

\* switch fi, err := db.Stat(dir)
DeleteStat(p) ==
    /\ pc[p] = "stat"
    /\ \E st \in {Stat(backend, Stores, Join(op[p].c, op[p].r))} :
          IF st.err # "ok" THEN Return(p, "ENOTFOUND")
          ELSE Goto(p, "remove", [op[p] EXCEPT !.k = st.k])
    /\ UNCHANGED <<backend, dirabs, genid, dbmutex, linked, base, layer, ops, faults, alone>>

\* db.DBFS.RemoveAll(dir) of a directory, RemoveAll(dir + ".json") of a file
DeleteRemove(p) ==
    /\ pc[p] = "remove"
    /\ \E f \in FaultChoices :
       \E r \in {DbRemoveAll(backend, Stores,
                            IF op[p].k = "dir" THEN Join(op[p].c, op[p].r)
                            ELSE AddExt(Join(op[p].c, op[p].r), "json"), f)} :
            /\ SetStores(p, r.S, {}, f)
            /\ Return(p, r.err)
    /\ UNCHANGED <<backend, dirabs, genid, dbmutex, linked, ops>>

\* ------------------------------------------------------------------ Link

\* db.Dir without datadir, when datadir is relative
DirRel == <<<<"db">>>>

\* filepath.Join(db.Dir, path) as the target string of a symbolic link
DirJoin(path) == Target(dirabs, IF dirabs THEN path ELSE DirRel \o path)

LinkCall(p, sc, sr, dc, dr) == CallTo(p, "Link", sc, sr, JNull, Join(sc, sr), dc, dr)

\* switch fi, err := db.Stat(src)
LinkStat(p) ==
    /\ pc[p] = "lstat"
    /\ \E st \in {Stat(backend, Stores, Join(op[p].c, op[p].r))} :
          IF st.err # "ok" THEN Return(p, "ENOTFOUND")
          ELSE IF st.k = "dir" THEN Goto(p, "symlink", [op[p] EXCEPT !.k = st.k])
          ELSE Goto(p, "unlink", [op[p] EXCEPT !.k = st.k])
    /\ UNCHANGED <<backend, dirabs, genid, dbmutex, linked, base, layer, ops, faults, alone>>

\* db.DBFS.Remove(dest + ".json"), its result dropped
LinkRemove(p) ==
    /\ pc[p] = "unlink"
    /\ \E f \in FaultChoices :
       \E name \in {AddExt(Join(op[p].dc, op[p].dr), "json")} :
       \E r \in {DbRemove(backend, Stores, name, f)} :
            /\ SetStores(p, r.S, {}, f)
            /\ Goto(p, "symlink",
                    [op[p] EXCEPT !.fresh = Real(base, name, FALSE).err = "ENOENT"])
    /\ UNCHANGED <<backend, dirabs, genid, dbmutex, linked, ops>>

\* return os.Symlink(src, dest) of a directory, os.Symlink(src + ".json",
\* dest + ".json") of a file: a call of the local file system, the primary
LinkSymlink(p) ==
    /\ pc[p] = "symlink"
    /\ \E f \in FaultChoices \ {"layer"} :
       \E src \in {Join(op[p].c, op[p].r)}, dest \in {Join(op[p].dc, op[p].dr)} :
       \E r \in {IF f = "base" THEN [fs |-> base, err |-> "EIO"]
                 ELSE IF op[p].k = "dir" THEN OsSymlink(base, DirJoin(src), dest)
                 ELSE OsSymlink(base, DirJoin(AddExt(src, "json")), AddExt(dest, "json"))} :
            /\ SetStores(p, [Stores EXCEPT !.b = r.fs], {}, f)
            /\ Return(p, r.err)
            /\ linked' = IF r.err = "ok" /\ op[p].k = "file"
                         THEN linked \cup {[sc |-> op[p].c, sr |-> op[p].r,
                                            dc |-> op[p].dc, dr |-> op[p].dr,
                                            fresh |-> op[p].fresh]}
                         ELSE linked
    /\ UNCHANGED <<backend, dirabs, genid, dbmutex, ops>>

\* ------------------------------------------------------------- the reads

GetCall(p, c, r) ==
    /\ CanCall(p)
    /\ \E res \in {Get(backend, Stores, c, r)} :
         ReturnRead(p, "Get", c, r, NoQuery, 0, "none", res.err, res.v, <<>>)

GetBytesCall(p, c, r) ==
    /\ CanCall(p)
    /\ \E res \in {GetBytes(backend, Stores, c, r)} :
         ReturnBytes(p, "GetBytes", c, r, NoQuery, 0, "none", res.err, JNull, <<>>, res.b)

GetAllCall(p, c, kind) ==
    /\ CanCall(p)
    /\ \E res \in {GetAll(backend, Stores, c, kind)} :
         ReturnRead(p, "GetAll", c, <<>>, NoQuery, 0, kind, res.err, JNull, res.out)

GetWhereCall(p, c, qe, limit, kind) ==
    /\ CanCall(p)
    /\ \E res \in {GetWhere(backend, Stores, c, qe.q, qe.e, limit, FALSE, kind)} :
         ReturnRead(p, "GetWhere", c, <<>>, qe, limit, kind, res.err, JNull, res.out)

GetWhereNotCall(p, c, qe, limit, kind) ==
    /\ CanCall(p)
    /\ \E res \in {GetWhere(backend, Stores, c, qe.q, qe.e, limit, TRUE, kind)} :
         ReturnRead(p, "GetWhereNot", c, <<>>, qe, limit, kind, res.err, JNull, res.out)

\* ------------------------------------------------------ the specification

Next ==
    \E p \in Procs :
        \/ \E c \in CollArgs, r \in ResArgs \ {<<>>}, v \in Values : PutCall(p, c, r, v)
        \/ Lock(p)
        \/ PutMkdir(p)
        \/ PutOpen(p)
        \/ PutWrite(p)
        \/ PutRename(p)
        \/ \E c \in CollArgs : InitCall(p, c)
        \/ InitMkdir(p)
        \/ \E c \in CollArgs, r \in ResArgs : DeleteCall(p, c, r)
        \/ DeleteStat(p)
        \/ DeleteRemove(p)
        \/ \E c \in ReadColls, r \in ResArgs : GetCall(p, c, r)
        \/ \E c \in ReadColls, r \in ResArgs : GetBytesCall(p, c, r)
        \/ \E c \in ReadColls : GetAllCall(p, c, "ptrslice")
        \/ \E c \in ReadColls, qe \in Queries, limit \in Limits :
              GetWhereCall(p, c, qe, limit, "ptrslice")
        \/ \E c \in ReadColls, qe \in Queries, limit \in Limits :
              GetWhereNotCall(p, c, qe, limit, "ptrslice")

Spec == Init /\ [][Next]_vars

\* --------------------------------------------- one caller, names at will

\* the one goroutine of the sequential runs
Caller == "g1"
\* collections a caller names: "", "c1", "c2" and the nested "c1/r1"
SeqColls == CollArgs \cup {<<<<"c1">>, <<"r1">>>>}
\* resources a caller names: "", "r1", "r2"
SeqRes == ResArgs \cup {NameArg("r2")}
\* the values a caller stores
SeqValues == {VPhenix, VFallen}

\* a constructor ran with an absolute or a relative datadir
InitSeq ==
    \E abs \in BOOLEAN :
        InitDir(abs, {EmptyStores, StoreOne(backend)})

NextSeq ==
    \/ \E c \in SeqColls, r \in ResArgs \ {<<>>}, v \in SeqValues : PutCall(Caller, c, r, v)
    \/ Lock(Caller)
    \/ PutMkdir(Caller)
    \/ PutOpen(Caller)
    \/ PutWrite(Caller)
    \/ PutRename(Caller)
    \/ \E c \in SeqColls : InitCall(Caller, c)
    \/ InitMkdir(Caller)
    \/ \E c \in SeqColls, r \in SeqRes : DeleteCall(Caller, c, r)
    \/ DeleteStat(Caller)
    \/ DeleteRemove(Caller)
    \/ \E sr \in ResArgs, dc \in CollArgs \ {<<>>}, dr \in SeqRes \ {<<>>} :
          LinkCall(Caller, NameArg("c1"), sr, dc, dr)
    \/ LinkStat(Caller)
    \/ LinkRemove(Caller)
    \/ LinkSymlink(Caller)

SpecSeq == InitSeq /\ [][NextSeq]_vars

\* ------------------------------------------------- one caller, one read

\* reads started in one run
MaxReads == 1
\* the limits of GetWhere and GetWhereNot a caller passes
ReadLimits == {-2, -1, 1, 2, 3}

\* the stores after a Put(c, r, v) whose write failed after k bytes
AfterFailedPut(be, S, c, r, v, k) ==
    LET s1 == DbMkdirAll(be, S, c, "none").S
        o == DbOpenFile(be, s1, TmpPath(c, r), "none")
        s2 == DbWrite(o.S, o.h, Marshal(v).b, "base", k).S
    IN [b |-> Reclaim(s2.b, {}), l |-> Reclaim(s2.l, {})]

\* the stores a read finds: what earlier Puts left, one of them failed
StoreSame(be) == AfterPut(be, StoreOne(be), NameArg("c1"), NameArg("r2"), VPhenix)
StoreTorn(be) == AfterFailedPut(be, StoreOne(be), NameArg("c1"), NameArg("r1"), VFallen, 2)
ReadStores(be) ==
    {EmptyStores, StoreOne(be), StoreTwo(be), StoreSame(be), StoreTorn(be)}

InitRead == InitDir(TRUE, ReadStores(backend))

\* the caller has reads left
CanRead == ops < MaxReads

NextRead ==
    \/ \E c \in SeqColls, r \in SeqRes : CanRead /\ GetCall(Caller, c, r)
    \/ \E c \in SeqColls, r \in SeqRes : CanRead /\ GetBytesCall(Caller, c, r)
    \/ \E c \in SeqColls, kind \in OutKinds : CanRead /\ GetAllCall(Caller, c, kind)
    \/ \E c \in SeqColls, qe \in Queries, limit \in ReadLimits, kind \in OutKinds :
          CanRead /\ GetWhereCall(Caller, c, qe, limit, kind)
    \/ \E c \in SeqColls, qe \in Queries, limit \in ReadLimits, kind \in OutKinds :
          CanRead /\ GetWhereNotCall(Caller, c, qe, limit, kind)

SpecRead == InitRead /\ [][NextRead]_vars

\* ------------------------------------------ one caller, one scan, limit 0

NextZero ==
    \/ \E c \in SeqColls, qe \in Queries, kind \in OutKinds :
          CanRead /\ GetWhereCall(Caller, c, qe, 0, kind)
    \/ \E c \in SeqColls, qe \in Queries, kind \in OutKinds :
          CanRead /\ GetWhereNotCall(Caller, c, qe, 0, kind)

SpecZero == InitRead /\ [][NextZero]_vars

\* --------------------------------------- one caller, Put and Delete only

NextPutDelete ==
    \/ \E c \in CollArgs, r \in SeqRes \ {<<>>}, v \in Values : PutCall(Caller, c, r, v)
    \/ Lock(Caller)
    \/ PutMkdir(Caller)
    \/ PutOpen(Caller)
    \/ PutWrite(Caller)
    \/ PutRename(Caller)
    \/ \E c \in CollArgs, r \in SeqRes : DeleteCall(Caller, c, r)
    \/ DeleteStat(Caller)
    \/ DeleteRemove(Caller)

SpecPutDelete == Init /\ [][NextPutDelete]_vars

\* ------------------------------------- getOrCreateMutex, step by step

\* db.mutex stays as it is
TableKept(p) == dbmutex' = dbmutex

\* the deferred db.mutex.Unlock() of getOrCreateMutex
TableUnlock(p) == dbmutex' = "none"

\* a mutating call begins: getOrCreateMutex(key) up to db.mutex.Lock(), which
\* waits while another goroutine holds db.mutex
TableLock(p, name, c, r, v, key) ==
    /\ CanCall(p)
    /\ dbmutex = "none"
    /\ dbmutex' = p
    /\ ops' = ops + 1
    /\ op' = [op EXCEPT ![p] = [NoOp EXCEPT !.name = name, !.c = c, !.r = r, !.v = v,
                                            !.key = key]]
    /\ pc' = [pc EXCEPT ![p] = "table"]
    /\ ret' = [ret EXCEPT ![p] = NoRet]
    /\ alone' = [alone EXCEPT ![p] = TRUE]
    /\ UNCHANGED <<backend, dirabs, genid, linked, base, layer, mutexes, local, faults>>

\* m, ok := db.mutexes[key], the insertion of a new mutex, return m (a copy)
\* and the deferred db.mutex.Unlock()
TableLookup(p) ==
    /\ pc[p] = "table"
    /\ mutexes' = Inserted(op[p].key)
    /\ local' = [local EXCEPT ![p] = IF MutexHandle(op[p].key).own
                                      THEN Inserted(op[p].key)[op[p].key] ELSE @]
    /\ op' = [op EXCEPT ![p].h = MutexHandle(op[p].key)]
    /\ pc' = [pc EXCEPT ![p] = "lock"]
    /\ TableUnlock(p)
    /\ UNCHANGED <<backend, dirabs, genid, linked, base, layer, ret, ops, faults, alone>>

\* Put, InitCollection and Delete of valid names up to db.mutex.Lock()
PutTable(p, c, r, v) == c # <<>> /\ TableLock(p, "Put", c, r, v, c)
InitTable(p, c) == TableLock(p, "InitCollection", c, <<>>, JNull, c)
DeleteTable(p, c, r) == TableLock(p, "Delete", c, r, JNull, Join(c, r))

\* the collections and resources the goroutines of these runs name
LockColls == {NameArg("c1")}
LockRes == {NameArg("r1")}

InitLock == InitDir(TRUE, {EmptyStores, StoreOne(backend)})

NextLock ==
    \E p \in Procs :
        \/ \E c \in LockColls, r \in LockRes : PutTable(p, c, r, VFallen)
        \/ \E c \in LockColls : InitTable(p, c)
        \/ \E c \in LockColls, r \in LockRes : DeleteTable(p, c, r)
        \/ TableLookup(p)
        \/ Lock(p)
        \/ PutMkdir(p)
        \/ PutOpen(p)
        \/ PutWrite(p)
        \/ PutRename(p)
        \/ InitMkdir(p)
        \/ DeleteStat(p)
        \/ DeleteRemove(p)

SpecLock == InitLock /\ [][NextLock]_vars

\* ------------------------------------------------------ GenID on its own

\* the sizes GenID is called with
MaxIdSize == 2

\* GenID(n): make([]byte, n), rand.Read(bytes), the loop over the bytes
GenIDCall(n) ==
    /\ genid = NoID
    /\ \E rnd \in [1..n -> Bytes] :
          genid' = [n |-> n, rnd |-> rnd, id |-> GenID(rnd)]
    /\ UNCHANGED <<backend, dirabs, dbmutex, linked, base, layer, mutexes, local, pc, op,
                   ret, ops, faults, alone>>

InitGen == InitDir(TRUE, {EmptyStores})

NextGen == \E n \in 0..MaxIdSize : GenIDCall(n)

SpecGen == InitGen /\ [][NextGen]_vars

\* ---------------------------------------------------------------- claims

\* the complete serializations of the values callers submit
Payloads == {Encode(v) : v \in {x \in Values : Serializable(x)}}
\* the resources the stores can hold
AllRes == ResArgs \cup {NameArg("r2")}
Scans == {"GetAll", "GetWhere", "GetWhereNot"}

\* C1: at most one of the mutating operations that use the same lock key is
\* between its Lock and its Unlock at any time.
C1_MutualExclusion ==
    \A p, q \in Procs :
        (p # q /\ InCS(p) /\ InCS(q)) => op[p].key # op[q].key

\* C2: once concurrent Puts to the same (collection, resource) with distinct
\* payloads have all returned, no storage call having failed, <resource>.json
\* holds the complete serialization of one of the payloads.
C2_OnePayloadStored ==
    \A c \in CollArgs \ {<<>>}, r \in ResArgs \ {<<>>} :
        ( /\ faults = 0
          /\ \A p \in Procs : /\ pc[p] = "idle"
                              /\ ret[p].name = "Put" /\ ret[p].c = c /\ ret[p].r = r
                              /\ Serializable(ret[p].v)
          /\ \A p, q \in Procs : p # q => ret[p].v # ret[q].v )
        => LET rf == DbReadFile(backend, Stores, FnlPath(c, r))
           IN rf.err = "ok" /\ rf.b \in {Encode(ret[p].v) : p \in Procs}

\* C3: in every state, what is readable under <resource>.json is the complete
\* serialization of a value some Put submitted.
C3_NoTornRead ==
    \A c \in CollArgs \ {<<>>}, r \in AllRes \ {<<>>} :
        LET rf == DbReadFile(backend, Stores, FnlPath(c, r))
        IN rf.err = "ok" => rf.b \in Payloads

\* C4: a successful Put(collection, resource, v) followed by Get(collection,
\* resource), nothing having changed the stores in between, yields v.
C4_RoundTrip ==
    \A p \in Procs :
        (pc[p] = "idle" /\ ret[p].name = "Put" /\ ret[p].err = "ok" /\ alone[p])
        => Get(backend, Stores, ret[p].c, ret[p].r) = [err |-> "ok", v |-> ret[p].v]

\* C5: a Put that fails leaves the record under <resource>.json untouched:
\* no storage call of a Put that returned an error changed what Get returns
\* for its record.
C5_FailedPutKeepsRecord ==
    \A p \in Procs :
        (ret[p].name = "Put" /\ ret[p].err \notin {"ok", "none"}) => ~ret[p].tch

\* While no other goroutine changes the stores, every step of a Put but a
\* rename that ends it with success leaves what Get returns unchanged.
FailedPutKeepsRecordWhenAlone ==
    [][\A p \in Procs :
          ( /\ op[p].name = "Put" /\ pc[p] # pc'[p] /\ alone[p]
            /\ ~(pc[p] = "rename" /\ ret'[p].err = "ok") )
          => Get(backend, [b |-> base', l |-> layer'], op[p].c, op[p].r)
                 = Get(backend, Stores, op[p].c, op[p].r)]_vars

\* C6: Put returns nil only after its rename of the temp file over the final
\* path succeeded on the primary store.
C6_SuccessAfterRename ==
    \A p \in Procs :
        (ret[p].name = "Put" /\ ret[p].err = "ok") => ret[p].mv

\* C7: no scan returns an element read from a temp file <resource>.json.tmp.
C7_NoTempFileElements ==
    \A p \in Procs :
        ret[p].name \in Scans =>
            \A i \in 1..Len(ret[p].out) :
                ret[p].out[i].src[Len(ret[p].out[i].src)] # "tmp"

\* C9: after a successful Delete(collection, ""), Get(collection, r) returns
\* not-found for every resource r.
C9_DeleteCollection ==
    \A p \in Procs :
        ( /\ pc[p] = "idle" /\ ret[p].name = "Delete" /\ ret[p].err = "ok"
          /\ ret[p].c # <<>> /\ ret[p].r = <<>> /\ alone[p] )
        => \A r \in AllRes \ {<<>>} :
               Get(backend, Stores, ret[p].c, r).err = "ENOENT"

\* C8: mutating operations whose lock keys differ never block each other:
\* while one is inside its critical section, the other, waiting at its
\* Lock, can take it.
C8_DifferentKeysDontBlock ==
    \A p, q \in Procs :
        (p # q /\ pc[p] = "lock" /\ InCS(q) /\ op[p].key # op[q].key)
        => ENABLED Lock(p)

\* two operations with different keys are inside their critical sections
C8_Witness ==
    \E p, q \in Procs :
        p # q /\ InCS(p) /\ InCS(q) /\ op[p].key # op[q].key

\* the entries of a collection directory whose field at the path of qe equals
\* the expected value of qe
FieldIs(c, qe, name) ==
    LET u == Unmarshal(DbReadFile(backend, Stores, Join(c, <<name>>)).b)
        f == RQuery(u.v, QueryPath(qe.q))
    IN u.err = "ok" /\ f.ok /\ f.v = qe.e

Srcs(out) == {out[i].src : i \in 1..Len(out)}
Names(files) == {files[i] : i \in 1..Len(files)}

\* C10 (as stated): with an unbounded limit GetWhere returns exactly the
\* records whose field at the path equals the expected value, and GetWhereNot
\* exactly the other records of the collection.
C10_ExactComplement ==
    \A p \in Procs :
        (ret[p].name \in {"GetWhere", "GetWhereNot"} /\ ret[p].limit = -1 /\ alone[p]
           /\ ret[p].c # <<>>)
        => LET files == Names(DbReadDir(backend, Stores, ret[p].c))
               hit == {n \in files : FieldIs(ret[p].c, ret[p].q, n)}
           IN Srcs(ret[p].out) = IF ret[p].name = "GetWhere" THEN hit ELSE files \ hit

\* C10 (amended): whenever both scans return without error, GetWhere holds
\* exactly the directory entries whose field equals the expected value,
\* GetWhereNot exactly the other entries, and every entry is in one of the
\* two results exactly once.
C10_ComplementWhenBothSucceed ==
    \A c \in ReadColls \ {<<>>}, qe \in Queries :
        LET w == GetWhere(backend, Stores, c, qe.q, qe.e, -1, FALSE, "ptrslice")
            n == GetWhere(backend, Stores, c, qe.q, qe.e, -1, TRUE, "ptrslice")
            files == Names(DbReadDir(backend, Stores, c))
        IN (w.err = "ok" /\ n.err = "ok")
           => /\ Srcs(w.out) = {x \in files : FieldIs(c, qe, x)}
              /\ Srcs(n.out) = {x \in files : ~FieldIs(c, qe, x)}
              /\ Len(w.out) + Len(n.out) = Cardinality(files)

\* a GetWhere with an unbounded limit returned one of two entries, the other
\* being what GetWhereNot returns
C10_Witness ==
    \E p \in Procs :
        /\ ret[p].name = "GetWhere" /\ ret[p].err = "ok" /\ ret[p].limit = -1 /\ alone[p]
        /\ Len(ret[p].out) = 1
        /\ LET n == GetWhere(backend, Stores, ret[p].c, ret[p].q.q, ret[p].q.e, -1, TRUE, "ptrslice")
           IN n.err = "ok" /\ Len(n.out) = 1

\* the smaller of two numbers
Min(a, b) == IF a <= b THEN a ELSE b

\* the entries of the collection c that hold a record a scan for qe takes:
\* GetWhere (neg = FALSE) those whose field equals the expected value,
\* GetWhereNot (neg = TRUE) the others
Qualifying(c, qe, neg) ==
    {n \in Names(DbReadDir(backend, Stores, c)) :
        /\ Unmarshal(DbReadFile(backend, Stores, Join(c, <<n>>)).b).err = "ok"
        /\ FieldIs(c, qe, n) # neg}

\* C11: a GetWhere or GetWhereNot that returns nil on a collection with k
\* qualifying records has appended min(limit, k) of them when limit >= 1, and
\* all k of them when the limit is negative.
C11_LimitSemantics ==
    \A p \in Procs :
        (ret[p].name \in {"GetWhere", "GetWhereNot"} /\ ret[p].err = "ok" /\ ret[p].c # <<>>)
        => LET qual == Qualifying(ret[p].c, ret[p].q, ret[p].name = "GetWhereNot")
               k == Cardinality(qual)
           IN /\ Srcs(ret[p].out) \subseteq qual
              /\ Len(ret[p].out) = IF ret[p].limit >= 1 THEN Min(ret[p].limit, k) ELSE k

\* a GetWhere with limit 1 returned one of two qualifying records
C11_Witness ==
    \E p \in Procs :
        /\ ret[p].name = "GetWhere" /\ ret[p].err = "ok" /\ ret[p].limit = 1
        /\ Len(ret[p].out) = 1
        /\ Cardinality(Qualifying(ret[p].c, ret[p].q, FALSE)) = 2

\* C11 (as stated): every GetWhere or GetWhereNot on a collection with k
\* qualifying records appends min(limit, k) of them when limit >= 1, and all
\* k of them when the limit is negative.
C11_LimitOnEveryScan ==
    \A p \in Procs :
        ( /\ ret[p].name \in {"GetWhere", "GetWhereNot"} /\ ret[p].c # <<>>
          /\ ret[p].kind = "ptrslice" )
        => LET k == Cardinality(Qualifying(ret[p].c, ret[p].q, ret[p].name = "GetWhereNot"))
           IN Len(ret[p].out) = IF ret[p].limit >= 1 THEN Min(ret[p].limit, k) ELSE k

\* a returned call whose arguments fail validation: an empty collection, or
\* for Get and GetBytes an empty resource
Invalid(rt) ==
    \/ rt.name \in {"Put", "GetAll", "GetWhere", "GetWhereNot"} /\ rt.c = <<>>
    \/ rt.name \in {"Get", "GetBytes"} /\ (rt.c = <<>> \/ rt.r = <<>>)

\* C12: a call whose arguments fail validation returns an error in the step
\* it is made, the stores and the Lock Table unchanged; no Put with an empty
\* collection gets as far as getOrCreateMutex.
C12_ValidationBeforeIO ==
    [][\A p \in Procs :
          /\ ~(op'[p].name = "Put" /\ op'[p].c = <<>>)
          /\ (ret'[p] # ret[p] /\ Invalid(ret'[p]))
             => /\ ret'[p].err = "EINVAL"
                /\ pc[p] = "idle" /\ pc'[p] = "idle"
                /\ UNCHANGED <<base, layer, mutexes, local>>]_vars

\* a Put with an empty collection and a Get with an empty resource returned
\* their validation errors while the Lock Table was empty
C12_Witness ==
    \E p, q \in Procs :
        /\ ret[p].name = "Put" /\ ret[p].c = <<>> /\ ret[p].err = "EINVAL"
        /\ ret[q].name = "Get" /\ ret[q].c # <<>> /\ ret[q].r = <<>> /\ ret[q].err = "EINVAL"
        /\ DOMAIN mutexes = {}

\* C13: a scan of a non-empty collection whose output argument is not a
\* pointer to a slice returns a TypeMismatchError and appends nothing.
C13_TypeMismatchReturned ==
    \A p \in Procs :
        ( /\ ret[p].name \in Scans /\ ret[p].c # <<>>
          /\ ret[p].kind \in OutKinds \ {"ptrslice"}
          /\ DbReadDir(backend, Stores, ret[p].c) # <<>> )
        => ret[p].err = "ETYPE" /\ ret[p].out = <<>>

\* C14: a scan of a collection whose directory is absent from the store
\* fails with a not-found error.
C14_AbsentCollectionNotFound ==
    \A p \in Procs :
        ( /\ ret[p].name \in Scans /\ ret[p].c # <<>> /\ ret[p].kind = "ptrslice"
          /\ OsStat(base, ret[p].c).k # "dir" )
        => IsNotExist(ret[p].err)

\* a scan of a collection with no directory returned nil
C14_Witness ==
    \E p \in Procs :
        /\ ret[p].name \in Scans /\ ret[p].c # <<>> /\ ret[p].kind = "ptrslice"
        /\ IsNotExist(OsStat(base, ret[p].c).err)
        /\ ret[p].err = "ok"

\* C15: a GetAll that returns an error has appended nothing to the caller's
\* slice.
C15_NoPartialResults ==
    \A p \in Procs :
        (ret[p].name = "GetAll" /\ ret[p].err \notin {"ok", "none"}) => ret[p].out = <<>>

\* a GetAll returned the error of an entry it could not decode after it had
\* appended the record read before it
C15_Witness ==
    \E p \in Procs :
        /\ ret[p].name = "GetAll" /\ ret[p].kind = "ptrslice"
        /\ ret[p].err \notin {"ok", "none", "PANIC"}
        /\ Len(ret[p].out) = 1

\* C16: no resource name of a collection resolves to both a live directory
\* <collection>/<resource> and a live file <collection>/<resource>.json.
C16_DirectoryOrFile ==
    \A c \in SeqColls \ {<<>>}, r \in SeqRes \ {<<>>} :
        (faults = 0 /\ pc[Caller] = "idle")
        => ~( /\ OsStat(base, Join(c, r)).k = "dir"
              /\ OsStat(base, FnlPath(c, r)).k = "file" )

\* after calls that met no failure, c1/r1 is a directory and c1/r1.json a file
C16_Witness ==
    /\ faults = 0 /\ pc[Caller] = "idle"
    /\ OsStat(base, Join(NameArg("c1"), NameArg("r1"))).k = "dir"
    /\ OsStat(base, FnlPath(NameArg("c1"), NameArg("r1"))).k = "file"
    /\ linked = {}

\* the Links of a file resource to a new destination that returned nil, when
\* the caller's last call is that Link or a Put to its source that returned
\* nil, no storage call having failed
LinksInPlace ==
    {l \in linked :
        /\ l.fresh /\ faults = 0
        /\ pc[Caller] = "idle" /\ ret[Caller].err = "ok"
        /\ ret[Caller].c = l.sc /\ ret[Caller].r = l.sr
        /\ \/ ret[Caller].name = "Link" /\ ret[Caller].dc = l.dc /\ ret[Caller].dr = l.dr
           \/ ret[Caller].name = "Put"}

\* C17: after a successful Link of a file resource to a new destination, and
\* after later Puts to the source, Get on the destination returns what Get on
\* the source returns.
C17_LinkAliases ==
    \A l \in LinksInPlace :
        LET g == Get(backend, Stores, l.dc, l.dr)
        IN g.err = "ok" /\ g = Get(backend, Stores, l.sc, l.sr)

\* When db.Dir is an absolute path, Get on the destination of a Link returns
\* what Get on the source returns, also after a later Put to the source.
LinkAliasesWhenAbsolute ==
    dirabs => C17_LinkAliases

\* a Link of c1/r1 to a new destination returned nil and Get on the
\* destination fails
C17_Witness ==
    \E l \in LinksInPlace :
        /\ ret[Caller].name = "Link"
        /\ Get(backend, Stores, l.sc, l.sr).err = "ok"
        /\ Get(backend, Stores, l.dc, l.dr).err # "ok"

\* a Put to the source of a Link changed what Get on the destination returns
LinkFollowsPut ==
    \E l \in LinksInPlace :
        /\ ret[Caller].name = "Put" /\ ret[Caller].v = VFallen
        /\ Get(backend, Stores, l.dc, l.dr) = [err |-> "ok", v |-> VFallen]

\* the Links of a file resource to a new destination that returned nil, when
\* the caller's last call is a Delete of the link's source that returned nil
LinksOfDeleted ==
    {l \in linked :
        /\ l.fresh
        /\ pc[Caller] = "idle" /\ ret[Caller].name = "Delete" /\ ret[Caller].err = "ok"
        /\ ret[Caller].c = l.sc /\ ret[Caller].r = l.sr}

\* C18: after a successful Link of a file resource and a successful Delete of
\* its source, Get on the destination fails.
C18_DanglingAfterDelete ==
    \A l \in LinksOfDeleted : Get(backend, Stores, l.dc, l.dr).err # "ok"

\* When no call of the primary store fails, Get on the destination of a Link
\* fails once the source is deleted.
DanglingAfterDeleteWhenNoFault ==
    faults = 0 => C18_DanglingAfterDelete

\* the source of a Link was deleted, no storage call having failed, and the
\* link is still there
DeletedUnderLink ==
    \E l \in LinksOfDeleted :
        /\ faults = 0 /\ dirabs
        /\ Real(base, FnlPath(l.dc, l.dr), FALSE).err = "ok"

\* Delete of a link's source returned nil and Get on the destination returns
\* the record
C18_Witness ==
    \E l \in LinksOfDeleted :
        Get(backend, Stores, l.dc, l.dr) = [err |-> "ok", v |-> VPhenix]

\* what a store holds: its directories, its files with their contents and
\* its links with their targets, by path
Tree(fs) ==
    [p \in DOMAIN fs.n |->
        [k |-> fs.n[p].k,
         to |-> fs.n[p].to,
         b |-> IF fs.n[p].k = "file" THEN fs.d[fs.n[p].i] ELSE <<>>]]

\* the primary store holds a symbolic link
HasLink(fs) == \E p \in DOMAIN fs.n : fs.n[p].k = "link"

\* C19: on the replicating backend, after calls that met no storage failure,
\* the secondary store holds the directories, files, links and contents of
\* the primary.
C19_SecondaryMirrorsPrimary ==
    (backend = "repl" /\ faults = 0 /\ pc[Caller] = "idle")
    => Tree(layer) = Tree(base)

\* As long as no Link has made a symbolic link, the secondary store holds
\* what the primary holds after calls that met no storage failure.
MirrorsWithoutLink ==
    (backend = "repl" /\ faults = 0 /\ pc[Caller] = "idle" /\ ~HasLink(base))
    => Tree(layer) = Tree(base)

\* a Link returned nil on the replicating backend, no storage call having
\* failed, and the secondary store has no link
C19_Witness ==
    /\ backend = "repl" /\ faults = 0 /\ pc[Caller] = "idle"
    /\ ret[Caller].name = "Link" /\ ret[Caller].err = "ok"
    /\ HasLink(base) /\ ~HasLink(layer)

\* a Put overwrote a record on both stores
MirroredOverwrite ==
    /\ backend = "repl" /\ faults = 0 /\ pc[Caller] = "idle"
    /\ ret[Caller].name = "Put" /\ ret[Caller].err = "ok" /\ ret[Caller].v = VFallen
    /\ OsReadFile(layer, FnlPath(NameArg("c1"), NameArg("r1"))).b = Encode(VFallen)
    /\ ops = 2

\* C20: the primary store's outcome determines the result of InitCollection
\* on the replicating backend: when InitCollection returns nil, the primary
\* store has the collection's directory.
C20_InitCollectionFailsWithPrimary ==
    ( /\ backend = "repl" /\ pc[Caller] = "idle"
      /\ ret[Caller].name = "InitCollection" /\ ret[Caller].err = "ok" )
    => OsStat(base, ret[Caller].c).k = "dir"

\* On the local backend a successful InitCollection leaves the collection's
\* directory on the store.
InitCollectionMakesDirectoryLocally ==
    ( /\ backend = "os" /\ pc[Caller] = "idle"
      /\ ret[Caller].name = "InitCollection" /\ ret[Caller].err = "ok" )
    => OsStat(base, ret[Caller].c).k = "dir"

\* InitCollection returned nil on the replicating backend after the primary
\* store's MkdirAll failed: the secondary store has the directory, the
\* primary has not
C20_Witness ==
    /\ backend = "repl" /\ pc[Caller] = "idle" /\ faults = 1
    /\ ret[Caller].name = "InitCollection" /\ ret[Caller].err = "ok"
    /\ IsNotExist(OsStat(base, ret[Caller].c).err)
    /\ OsStat(layer, ret[Caller].c).k = "dir"

\* InitCollection returned the I/O error of the local store
LocalInitCollectionFailed ==
    /\ backend = "os" /\ pc[Caller] = "idle"
    /\ ret[Caller].name = "InitCollection" /\ ret[Caller].err = "EIO"

\* the storage call the Put of p makes next, when the store f fails in it
PutStorageCall(p, f) ==
    CASE pc[p] = "mkdir" -> DbMkdirAll(backend, Stores, op[p].c, f)
      [] pc[p] = "open" -> DbOpenFile(backend, Stores, TmpPath(op[p].c, op[p].r), f)
      [] pc[p] = "write" -> DbWrite(Stores, op[p].fd, op[p].b, f, 0)
      [] pc[p] = "rename" -> DbRename(backend, Stores, TmpPath(op[p].c, op[p].r),
                                      FnlPath(op[p].c, op[p].r), f)

\* p's Put is at a storage call of the replicating backend that succeeds when
\* no store fails
AtReplicatedCall(p) ==
    /\ backend = "repl" /\ op[p].name = "Put"
    /\ pc[p] \in {"mkdir", "open", "write", "rename"}
    /\ PutStorageCall(p, "none").err = "ok"

\* C21: a storage call of Put on the replicating backend that succeeds when
\* no store fails also returns success when the secondary store fails in it.
C21_SecondaryFailureNotSurfaced ==
    AtReplicatedCall(Caller) => PutStorageCall(Caller, "layer").err = "ok"

\* The secondary store's failure is not returned by MkdirAll, by the write to
\* the open file and by Rename.
SecondaryFailureDroppedButInOpen ==
    (AtReplicatedCall(Caller) /\ pc[Caller] # "open")
    => PutStorageCall(Caller, "layer").err = "ok"

\* the temp file of a Put is created on the primary store and the failure of
\* the secondary store's Create is returned
C21_Witness ==
    /\ AtReplicatedCall(Caller) /\ pc[Caller] = "open"
    /\ PutStorageCall(Caller, "layer").err = "EIO"
    /\ OsStat(PutStorageCall(Caller, "layer").S.b, TmpPath(op[Caller].c, op[Caller].r)).k = "file"

\* a Put whose rename failed on the secondary store returned nil
SecondaryRenameDropped ==
    /\ AtReplicatedCall(Caller) /\ pc[Caller] = "rename"
    /\ PutStorageCall(Caller, "layer").S.l = layer
    /\ PutStorageCall(Caller, "layer").S.b # base

\* what the read that returned rt returns on the stores S
Answer(rt, S) ==
    CASE rt.name = "Get" ->
            LET g == Get(backend, S, rt.c, rt.r) IN [err |-> g.err, v |-> g.v, out |-> <<>>]
      [] rt.name = "GetAll" ->
            LET g == GetAll(backend, S, rt.c, rt.kind)
            IN [err |-> g.err, v |-> JNull, out |-> g.out]
      [] rt.name \in {"GetWhere", "GetWhereNot"} ->
            LET g == GetWhere(backend, S, rt.c, rt.q.q, rt.q.e, rt.limit,
                              rt.name = "GetWhereNot", rt.kind)
            IN [err |-> g.err, v |-> JNull, out |-> g.out]

\* contents the secondary store could hold instead of its own
OtherSecondaries ==
    {RootFs} \cup {S.b : S \in ReadStores(backend)} \cup {S.l : S \in ReadStores(backend)}

\* C22: on the replicating backend a Get, GetAll, GetWhere or GetWhereNot
\* returns what it would return with any other content of the secondary
\* store.
C22_ReadsIgnoreSecondary ==
    \A p \in Procs :
        (backend = "repl" /\ ret[p].name \in {"Get"} \cup Scans)
        => \A L2 \in OtherSecondaries :
              Answer(ret[p], [b |-> base, l |-> L2])
                  = [err |-> ret[p].err, v |-> ret[p].v, out |-> ret[p].out]

\* a Get returned the primary store's record while the secondary store holds
\* another content under the same collection
C22_Witness ==
    \E p \in Procs :
        /\ backend = "repl" /\ ret[p].name = "Get" /\ ret[p].err = "ok"
        /\ Tree(layer) # Tree(base)
        /\ Answer(ret[p], [b |-> base, l |-> RootFs]).v = ret[p].v

\* GetBytes and Get agree on every record of the stores: GetBytes fails with
\* the error Get fails with in its validation, its db.Stat and its read, and
\* otherwise returns the bytes of <resource>.json, which Get goes on to decode.
GetBytesAsGet ==
    \A c \in ReadColls, r \in ResArgs :
        LET gb == GetBytes(backend, Stores, c, r)
            g == Get(backend, Stores, c, r)
        IN IF gb.err = "ok"
           THEN /\ gb.b = DbReadFile(backend, Stores, FnlPath(c, r)).b
                /\ Unmarshal(gb.b) = g
           ELSE g = [err |-> gb.err, v |-> JNull]

\* C23: GetBytes fails exactly when Get fails before decoding, and after a
\* successful Put(collection, resource, v), nothing having changed the stores
\* since, it returns the serialization of v.
C23_GetBytesReturnsLastPut ==
    /\ GetBytesAsGet
    /\ \A p \in Procs :
          (pc[p] = "idle" /\ ret[p].name = "Put" /\ ret[p].err = "ok" /\ alone[p])
          => GetBytes(backend, Stores, ret[p].c, ret[p].r)
                 = [err |-> "ok", b |-> Encode(ret[p].v)]

\* a GetBytes returned the bytes of a record while the last Put to that record,
\* which returned nil with no other call changing the stores, wrote another
\* value
C23_Witness ==
    \E p, q \in Procs :
        /\ p # q /\ pc[p] = "idle" /\ pc[q] = "idle"
        /\ ret[p].name = "Put" /\ ret[p].err = "ok" /\ alone[p]
        /\ ret[q].name = "GetBytes" /\ ret[q].err = "ok" /\ alone[q]
        /\ ret[q].c = ret[p].c /\ ret[q].r = ret[p].r
        /\ ret[q].b = GetBytes(backend, Stores, ret[p].c, ret[p].r).b
        /\ ret[q].b # Encode(ret[p].v)

\* a GetBytes returned the serialization the Put before it wrote
GetBytesAfterPut ==
    \E p, q \in Procs :
        /\ p # q /\ ret[p].name = "Put" /\ ret[p].err = "ok"
        /\ ret[q].name = "GetBytes" /\ ret[q].err = "ok"
        /\ ret[q].c = ret[p].c /\ ret[q].r = ret[p].r
        /\ ret[q].b = Encode(ret[p].v) /\ ret[p].v = VFallen

\* On the local backend GetBytes returns the serialization of the value of a
\* successful Put as long as nothing else changes the stores.
GetBytesReturnsLastPutLocally ==
    \A p \in Procs :
        (backend = "os" /\ pc[p] = "idle" /\ ret[p].name = "Put" /\ ret[p].err = "ok" /\ alone[p])
        => GetBytes(backend, Stores, ret[p].c, ret[p].r) = [err |-> "ok", b |-> Encode(ret[p].v)]

\* the byte values that select the symbol s
Selecting(s) == {v \in Bytes : Symbol(v) = s}

\* GenID(n) returns a string of n characters of the dictionary.
GenIDLength ==
    genid # NoID
    => /\ Len(genid.id) = genid.n
       /\ \A k \in 1..Len(genid.id) : \E i \in 1..Len(Dictionary) : genid.id[k] = Dictionary[i]

\* C24: GenID(n) returns n characters, and each character it returns is
\* selected by as many of the 256 byte values as every other symbol of the
\* dictionary.
C24_UniformSymbols ==
    genid # NoID
    => /\ Len(genid.id) = genid.n
       /\ \A k \in 1..Len(genid.id), i \in 1..Len(Dictionary) :
             Cardinality(Selecting(genid.id[k])) = Cardinality(Selecting(Dictionary[i]))

\* GenID(2) returned "0z": five byte values select "0", four select "z"
C24_Witness ==
    /\ genid # NoID /\ genid.n = 2 /\ genid.id = <<"0", "z">>
    /\ Cardinality(Selecting("0")) = 5
    /\ Cardinality(Selecting("z")) = 4

\* a goroutine is in a storage call of its critical section
InStorageCall(p) ==
    pc[p] \in {"mkdir", "open", "write", "rename", "init", "stat", "remove"}

\* C25: db.mutexes is read and inserted into only by the goroutine that holds
\* db.mutex, and db.mutex is held for that step only: a goroutine that waits
\* for its per-key mutex, holds it, or is in a storage call does not hold
\* db.mutex.
C25_TableLockDiscipline ==
    \A p \in Procs :
        /\ pc[p] = "table" => dbmutex = p
        /\ dbmutex = p => pc[p] = "table"
        /\ pc[p] = "lock" \/ InCS(p) \/ InStorageCall(p) => dbmutex # p

\* db.mutexes changes only in a step of the goroutine that holds db.mutex,
\* which frees db.mutex in that step.
TableChangedUnderLock ==
    [][mutexes' # mutexes => /\ dbmutex \in Procs
                             /\ pc[dbmutex] = "table"
                             /\ dbmutex' = "none"]_vars

\* one goroutine is in the critical section of its Put, writing, while the
\* other holds db.mutex for its lookup
C25_Witness ==
    \E p, q \in Procs :
        /\ p # q
        /\ pc[p] = "write" /\ local[p]
        /\ pc[q] = "table" /\ dbmutex = q
        /\ op[p].key \in DOMAIN mutexes

\* the stores after the step
StoresNext == [b |-> base', l |-> layer']

\* the step in which a Delete of the caller removes what it named
DeleteRemoves == pc[Caller] = "remove" /\ pc'[Caller] = "idle"

\* the database root directory is there
RootExists(S) == Stat(backend, S, <<>>).err = "ok"

\* every record of the collections cs reads as before the step
ReadAsBefore(cs) ==
    \A c \in cs, r \in SeqRes \ {<<>>} :
        Get(backend, StoresNext, c, r) = Get(backend, Stores, c, r)

\* C26: whatever its arguments, Delete(collection, resource) leaves the
\* database root directory in place and every record of every other
\* collection readable with the content it had.
C26_DeleteStaysInCollection ==
    [][DeleteRemoves
       => /\ RootExists(StoresNext)
          /\ ReadAsBefore(SeqColls \ {<<>>, op[Caller].c})]_vars

\* Delete of a named collection, or of a record of it, no link made and the
\* path named not a record of another collection, leaves the root in place
\* and the collections beside it as they were.
DeleteOfNamedStaysInCollection ==
    [][DeleteRemoves /\ op[Caller].c # <<>> /\ linked = {}
       /\ (op[Caller].r = <<>> => op[Caller].k = "dir")
       => /\ RootExists(StoresNext)
          /\ ReadAsBefore({c \in SeqColls \ {<<>>} :
                             ~IsPrefix(op[Caller].c, c)})]_vars

\* Delete("", "") returned nil and the record c1/r1 that was there is gone
\* with the root directory
C26_Witness ==
    /\ ret[Caller].name = "Delete" /\ ret[Caller].c = <<>> /\ ret[Caller].r = <<>>
    /\ ret[Caller].err = "ok"
    /\ ~RootExists(Stores)
    /\ Get(backend, Stores, NameArg("c1"), NameArg("r1")).err # "ok"
    /\ ops = 1

\* Delete("c1", "r1") returned nil with the root directory in place
DeleteOfNamedReturned ==
    /\ ret[Caller].name = "Delete" /\ ret[Caller].c = NameArg("c1")
    /\ ret[Caller].r = NameArg("r1") /\ ret[Caller].err = "ok"
    /\ RootExists(Stores)

\* a step of a Link call of the caller
LinkStep == pc[Caller] \in {"lstat", "unlink", "symlink"}

\* Get on the source of the caller's Link returns after the step what it
\* returned before
SourceReadsAsBefore ==
    Get(backend, StoresNext, op[Caller].c, op[Caller].r)
        = Get(backend, Stores, op[Caller].c, op[Caller].r)

\* C27: for all source and destination arguments, no step of a Link call,
\* whether the call succeeds or fails, changes what Get on the source returns.
C27_LinkKeepsSource == [][LinkStep => SourceReadsAsBefore]_vars

\* A Link whose destination is not its source changes nothing Get on the
\* source returns.
LinkElsewhereKeepsSource ==
    [][LinkStep /\ Join(op[Caller].dc, op[Caller].dr) # Join(op[Caller].c, op[Caller].r)
       => SourceReadsAsBefore]_vars

\* Link("c1", "r1", "c1", "r1"), the first call of the run, found the record,
\* returned nil, and Get("c1", "r1") fails
C27_Witness ==
    /\ ret[Caller].name = "Link"
    /\ ret[Caller].c = NameArg("c1") /\ ret[Caller].r = NameArg("r1")
    /\ ret[Caller].dc = NameArg("c1") /\ ret[Caller].dr = NameArg("r1")
    /\ ret[Caller].err = "ok"
    /\ ops = 1
    /\ Get(backend, Stores, NameArg("c1"), NameArg("r1")).err # "ok"

\* Link("c1", "r1", "c2", "r2") returned and Get("c1", "r1") succeeds
LinkElsewhereReturned ==
    /\ ret[Caller].name = "Link"
    /\ ret[Caller].c = NameArg("c1") /\ ret[Caller].r = NameArg("r1")
    /\ ret[Caller].dc = NameArg("c2") /\ ret[Caller].dr = NameArg("r2")
    /\ Get(backend, Stores, NameArg("c1"), NameArg("r1")).err = "ok"

\* goroutine p returned from a Put of a value json.Marshal accepts
PutReturned(p) ==
    /\ pc[p] = "idle"
    /\ ret[p].name = "Put" /\ ret[p].c # <<>> /\ Serializable(ret[p].v)

\* C28: when the Puts of two goroutines to the same (collection, resource)
\* have returned and no storage call was made to fail, each of them returned
\* nil.
C28_ConcurrentPutsSucceed ==
    \A p, q \in Procs :
        /\ p # q /\ faults = 0
        /\ PutReturned(p) /\ PutReturned(q)
        /\ ret[p].c = ret[q].c /\ ret[p].r = ret[q].r
        => ret[p].err = "ok" /\ ret[q].err = "ok"

\* A Put during whose call no other goroutine changed the stores, and none of
\* whose storage calls was made to fail, returns nil.
PutAloneSucceeds ==
    \A p \in Procs :
        PutReturned(p) /\ faults = 0 /\ alone[p] => ret[p].err = "ok"

\* both goroutines returned from Put("c1", "r1", v) with no storage fault, one
\* with nil and one with the error of a rename that found no temp file
C28_Witness ==
    \E p, q \in Procs :
        /\ p # q /\ faults = 0
        /\ PutReturned(p) /\ PutReturned(q)
        /\ ret[p].c = ret[q].c /\ ret[p].r = ret[q].r
        /\ ret[p].err = "ok" /\ ret[q].err = "ENOENT"

\* a Put that ran alone with no storage fault returned
PutAloneReturned ==
    \E p \in Procs : PutReturned(p) /\ faults = 0 /\ alone[p] /\ ret[p].err = "ok"

\* no call is running
Quiescent == \A p \in Procs : pc[p] = "idle"

\* the resources of collection c that Get reads
Readable(c) == {r \in AllRes \ {<<>>} : Get(backend, Stores, c, r).err = "ok"}

\* GetAll(c) succeeds and its elements are, one for one, the records of c that
\* Get reads, with the content Get returns
GetAllIsTheReadable(c) ==
    LET g == GetAll(backend, Stores, c, "ptrslice")
    IN /\ g.err = "ok"
       /\ \E f \in [1..Len(g.out) -> Readable(c)] :
             /\ \A i, j \in 1..Len(g.out) : f[i] = f[j] => i = j
             /\ \A r \in Readable(c) : \E i \in 1..Len(g.out) : f[i] = r
             /\ \A i \in 1..Len(g.out) : g.out[i].v = Get(backend, Stores, c, f[i]).v

\* collection c is a directory of the database
Existing(c) ==
    LET st == Stat(backend, Stores, c) IN st.err = "ok" /\ st.k = "dir"

\* the listing of collection c names a temp file
HasTemp(c) ==
    \E i \in 1..Len(DbReadDir(backend, Stores, c)) :
        LET name == DbReadDir(backend, Stores, c)[i] IN name[Len(name)] = "tmp"

\* C29: when every Put and Delete called has returned, with nil or with an
\* error, GetAll on an existing collection succeeds and returns exactly one
\* element, of the same content, for each resource Get reads, and nothing
\* else.
C29_GetAllMatchesGet ==
    Quiescent => \A c \in CollArgs \ {<<>>} : Existing(c) => GetAllIsTheReadable(c)

\* In a quiescent state GetAll agrees with Get on every existing collection
\* whose directory holds no temp file.
GetAllMatchesGetWithoutTemp ==
    Quiescent => \A c \in CollArgs \ {<<>>} :
                    Existing(c) /\ ~HasTemp(c) => GetAllIsTheReadable(c)

\* on the local backend a Put to c1 failed and left its temp file: GetAll("c1")
\* does not agree with Get
C29_Witness ==
    /\ Quiescent /\ backend = "os"
    /\ ret[Caller].name = "Put" /\ ret[Caller].c = NameArg("c1") /\ ret[Caller].err # "ok"
    /\ Existing(NameArg("c1")) /\ HasTemp(NameArg("c1"))
    /\ ~GetAllIsTheReadable(NameArg("c1"))

\* a Put to c1 returned nil, no temp file is left and GetAll("c1") returns the
\* records Get reads, one at least
GetAllAfterPut ==
    /\ Quiescent
    /\ ret[Caller].name = "Put" /\ ret[Caller].c = NameArg("c1") /\ ret[Caller].err = "ok"
    /\ ~HasTemp(NameArg("c1"))
    /\ Readable(NameArg("c1")) # {}
    /\ GetAllIsTheReadable(NameArg("c1"))

\* a GetWhere or GetWhereNot of goroutine p called with limit 0 has returned
ZeroScan(p) == ret[p].name \in {"GetWhere", "GetWhereNot"} /\ ret[p].limit = 0

\* C30: a GetWhere or GetWhereNot called with limit 0 appends no record,
\* whatever the collection holds.
C30_LimitZeroAppendsNothing ==
    \A p \in Procs : ZeroScan(p) => ret[p].out = <<>>

\* A GetWhere or GetWhereNot with limit 0 that returns nil has appended
\* nothing when the collection is empty or its first entry does not qualify,
\* and every qualifying record when its first entry qualifies.
LimitZeroFirstEntryDecides ==
    \A p \in Procs :
        ZeroScan(p) /\ ret[p].err = "ok" /\ ret[p].c # <<>>
        => LET files == DbReadDir(backend, Stores, ret[p].c)
               qual == Qualifying(ret[p].c, ret[p].q, ret[p].name = "GetWhereNot")
           IN /\ Srcs(ret[p].out) \subseteq qual
              /\ Len(ret[p].out) = IF files # <<>> /\ files[1] \in qual
                                   THEN Cardinality(qual) ELSE 0

\* GetWhere with limit 0 returned nil and appended two records
C30_Witness ==
    \E p \in Procs :
        /\ ZeroScan(p) /\ ret[p].name = "GetWhere" /\ ret[p].err = "ok"
        /\ Len(ret[p].out) = 2

\* GetWhere with limit 0 returned nil and appended nothing, the first entry not
\* qualifying and another entry qualifying
LimitZeroStoppedAtFirst ==
    \E p \in Procs :
        /\ ZeroScan(p) /\ ret[p].err = "ok" /\ ret[p].c # <<>>
        /\ ret[p].out = <<>>
        /\ Qualifying(ret[p].c, ret[p].q, ret[p].name = "GetWhereNot") # {}

====
